---- MODULE Spec2Model ----
(***************************************************************************)
(* Model of src/app.py: the Account Store and Log Store (SQLite tables),   *)
(* the APScheduler job registry, the admin request handlers, each running  *)
(* on the thread of its request, and the scheduler's worker pool running   *)
(* _job_wrapper.  Every access to a store or to the scheduler is one       *)
(* atomic step of the thread that makes it; local computation is folded    *)
(* into the step that follows it.                                          *)
(*                                                                         *)
(* Strings that the code parses are tuples of one-character strings.       *)
(***************************************************************************)
EXTENDS Integers, Sequences, FiniteSets, Bags, TLC

\* ------------------------------------------------------------------ bounds
\* operations (admin requests and scheduled fires) started in one run; each
\* runs on a thread of its own, so this also bounds how many run concurrently
MaxOps == 2
\* store operations that fail in one run (SpecFault only)
MaxFaults == 1
\* longest generated argument of parse_time_hhmm (SpecParse only)
MaxTimeLen == 5
\* steps of 100 seconds the clock takes within one day (SpecClock only)
MaxTicks == 8
\* whole days the scheduler sleeps through (SpecClock only)
MaxDays == 2

\* --------------------------------------------------------- program constants
DEFAULT_STEPS == 89888
DEFAULT_TIME == <<"0", "0", ":", "0", "5">>
DEFAULT_PHONE == "Tbh2356@163.com"
DEFAULT_PWD == "112233qq"
DEFAULT_NAME == "seeded"
UNNAMED == "unnamed"
max_instances == 1
misfire_grace_time == 300

\* ------------------------------------------------------------ parse_time_hhmm
Digits == <<"0", "1", "2", "3", "4", "5", "6", "7", "8", "9">>

IsDigit(c) == \E i \in 1..10 : Digits[i] = c

DigitVal(c) == (CHOOSE i \in 1..10 : Digits[i] = c) - 1

IsSpace(c) == c = " "

RECURSIVE LStrip(_)
LStrip(s) == IF s # <<>> /\ IsSpace(Head(s)) THEN LStrip(Tail(s)) ELSE s

RECURSIVE RStrip(_)
RStrip(s) ==
    IF s # <<>> /\ IsSpace(s[Len(s)]) THEN RStrip(SubSeq(s, 1, Len(s) - 1)) ELSE s

\* str.strip()
Strip(s) == RStrip(LStrip(s))

\* str.split(":"): every colon separates, empty parts are kept
RECURSIVE SplitColon(_)
SplitColon(s) ==
    IF \E i \in 1..Len(s) : s[i] = ":"
    THEN LET i == CHOOSE k \in 1..Len(s) :
                      s[k] = ":" /\ \A j \in 1..(k - 1) : s[j] # ":"
         IN  <<SubSeq(s, 1, i - 1)>> \o SplitColon(SubSeq(s, i + 1, Len(s)))
    ELSE <<s>>

\* the digit part of an int() literal: digits, single underscores between them
DigitsOk(d) ==
    /\ d # <<>>
    /\ IsDigit(d[1]) /\ IsDigit(d[Len(d)])
    /\ \A i \in 1..Len(d) : IsDigit(d[i]) \/ d[i] = "_"
    /\ \A i \in 1..(Len(d) - 1) : ~(d[i] = "_" /\ d[i + 1] = "_")

RECURSIVE DigitsValue(_, _)
DigitsValue(d, acc) ==
    IF d = <<>> THEN acc
    ELSE IF Head(d) = "_" THEN DigitsValue(Tail(d), acc)
    ELSE DigitsValue(Tail(d), 10 * acc + DigitVal(Head(d)))

\* int(x): surrounding whitespace, an optional sign, then the digit part
IntOf(x) ==
    LET s    == Strip(x)
        sgn  == IF s # <<>> /\ Head(s) \in {"+", "-"} THEN Head(s) ELSE ""
        d    == IF sgn = "" THEN s ELSE Tail(s)
    IN  IF DigitsOk(d)
        THEN [ok |-> TRUE,
              val |-> IF sgn = "-" THEN 0 - DigitsValue(d, 0) ELSE DigitsValue(d, 0)]
        ELSE [ok |-> FALSE, val |-> 0]

parse_time_hhmm(hhmm) ==
    LET parts == SplitColon(Strip(hhmm))
    IN  IF Len(parts) # 2
        THEN [ok |-> FALSE, h |-> 0, m |-> 0, err |-> "format"]
        ELSE LET h == IntOf(parts[1])
                 m == IntOf(parts[2])
             IN  IF ~h.ok \/ ~m.ok
                 THEN [ok |-> FALSE, h |-> 0, m |-> 0, err |-> "int"]
                 ELSE IF 0 <= h.val /\ h.val <= 23 /\ 0 <= m.val /\ m.val <= 59
                 THEN [ok |-> TRUE, h |-> h.val, m |-> m.val, err |-> ""]
                 ELSE [ok |-> FALSE, h |-> 0, m |-> 0, err |-> "range"]

\* ------------------------------------------------------------------- data
\* an optional value: <<>> is None, <<v>> is v
None == <<>>

Some(v) == <<v>>

TIME_2359 == <<"2", "3", ":", "5", "9">>
TIME_2400 == <<"2", "4", ":", "0", "0">>
TIME_ABC == <<"a", "b", "c">>

\* request.form of account_add / account_update, drawn from small sets
FormNames == {""}
FormPhones == {"", DEFAULT_PHONE}
FormPwds == {"", DEFAULT_PWD}
FormSteps == {0, DEFAULT_STEPS}
FormTimes == {DEFAULT_TIME, TIME_2359, TIME_2400, TIME_ABC}
FormEnabled == {"on", ""}

\* parse_time_hhmm tabulated over the submit_time values the forms and the
\* seed can store, so that a lookup stands for each call with one of them
ParsedTimes ==
    [t \in FormTimes \cup {Strip(t) : t \in FormTimes} \cup {DEFAULT_TIME} |->
        parse_time_hhmm(t)]

\* parse_time_hhmm(t)
ParseTime(t) == IF t \in DOMAIN ParsedTimes THEN ParsedTimes[t] ELSE parse_time_hhmm(t)

AllForms ==
    [name : FormNames, phone : FormPhones, pwd : FormPwds,
     step_num : FormSteps, submit_time : FormTimes, enabled : FormEnabled]

\* the forms a request is drawn from: at most one field is empty or invalid
Forms ==
    {f \in AllForms :
        Cardinality({k \in {"phone", "pwd", "step_num", "submit_time"} :
                        \/ k = "phone" /\ f.phone = ""
                        \/ k = "pwd" /\ f.pwd = ""
                        \/ k = "step_num" /\ f.step_num = 0
                        \/ k = "submit_time" /\ f.submit_time \in {TIME_2400, TIME_ABC}}) <= 1}

\* x or y, for strings
OrElse(x, y) == IF x = "" THEN y ELSE x

\* the value of fetch_account for a missing row (Python's None)
NoRow ==
    [id |-> 0, name |-> "", phone |-> "", pwd |-> "", step_num |-> 0,
     submit_time |-> <<>>, enabled |-> 0]

\* ids the accounts table can have assigned, and one it never assigns
AccountIds == 1..(MaxOps + 2)

\* the threads: the k-th operation of a run executes on thread k (a fire the
\* executor refuses is an operation too, over as soon as it is refused)
Procs == 1..MaxOps

job_id_for_account(account_id) == <<"account_submit", account_id>>

JobIds == {job_id_for_account(i) : i \in AccountIds}

\* ------------------------------------------------------------ the job store
\* The scheduler's registry is a bag of jobs, so that a job registered twice
\* would be seen as two triggers.
HasJob(J, jid) == \E j \in BagToSet(J) : j.id = jid

JobsOf(J, jid) == {j \in BagToSet(J) : j.id = jid}

\* number of triggers registered under jid
TriggerCount(J, jid) ==
    LET RECURSIVE Sum(_)
        Sum(S) == IF S = {} THEN 0
                  ELSE LET j == CHOOSE x \in S : TRUE IN J[j] + Sum(S \ {j})
    IN  Sum(JobsOf(J, jid))

WithoutJob(J, jid) == [j \in {x \in DOMAIN J : x.id # jid} |-> J[j]]

\* scheduler.remove_job(jid): JobLookupError when no job has that id
remove_job(J, jid) ==
    [jobs |-> WithoutJob(J, jid), raised |-> ~HasJob(J, jid)]

\* TryRemoveJob without its except clause: a missing job raises to the caller
TryRemoveJob_raise(J, jid) == remove_job(J, jid)

\* try: scheduler.remove_job(jid) / except Exception: pass
TryRemoveJob(J, jid) ==
    [jobs |-> remove_job(J, jid).jobs, raised |-> FALSE]

\* scheduler.add_job(..., id=jid, replace_existing=True) on a running scheduler
add_job(J, job) == WithoutJob(J, job.id) (+) SetToBag({job})

\* the job schedule_account_job builds for an account whose time parses
JobFor(account) ==
    LET t == ParseTime(account.submit_time)
    IN  [id |-> job_id_for_account(account.id), hour |-> t.h, minute |-> t.m,
         args |-> account.id]

\* ScheduleRemove that forgets the removal
ScheduleRemove_keep(J, account) == [jobs |-> J, raised |-> FALSE]

\* schedule_account_job, first scheduler access: drop the old job
ScheduleRemove(J, account) == TryRemoveJob(J, job_id_for_account(account.id))

\* schedule_account_job, from the enabled test on: (re)install the job.
\* raised = an exception leaves the function (parse_time_hhmm's ValueError)
ScheduleInstall(J, account) ==
    IF account.enabled # 1 THEN [jobs |-> J, raised |-> FALSE]
    ELSE IF ~ParseTime(account.submit_time).ok THEN [jobs |-> J, raised |-> TRUE]
    ELSE [jobs |-> add_job(J, JobFor(account)), raised |-> FALSE]

\* schedule_account_job that registers the job under a fresh key each time,
\* without removing or replacing the one already there
schedule_account_job_dup(J, account) ==
    IF account.enabled # 1 THEN [jobs |-> J, raised |-> FALSE]
    ELSE [jobs |-> J (+) SetToBag({JobFor(account)}), raised |-> FALSE]

\* schedule_account_job run without interruption
schedule_account_job(J, account) ==
    LET r == ScheduleRemove(J, account)
    IN  IF r.raised THEN r ELSE ScheduleInstall(r.jobs, account)

\* ------------------------------------------------------- the submission
UpperCase ==
    <<"A", "B", "C", "D", "E", "F", "G", "H", "I", "J", "K", "L", "M",
      "N", "O", "P", "Q", "R", "S", "T", "U", "V", "W", "X", "Y", "Z">>

LowerCase ==
    <<"a", "b", "c", "d", "e", "f", "g", "h", "i", "j", "k", "l", "m",
      "n", "o", "p", "q", "r", "s", "t", "u", "v", "w", "x", "y", "z">>

\* str.lower()
Lower(s) ==
    [i \in 1..Len(s) |->
        IF \E k \in 1..26 : UpperCase[k] = s[i]
        THEN LowerCase[CHOOSE k \in 1..26 : UpperCase[k] = s[i]]
        ELSE s[i]]

\* w in s
Contains(s, w) ==
    \E i \in 0..(Len(s) - Len(w)) : SubSeq(s, i + 1, i + Len(w)) = w

SUCCESS == <<"s", "u", "c", "c", "e", "s", "s">>

\* response bodies
B_EMPTY == <<>>
B_JSON ==
    <<"{", "\"", "c", "o", "d", "e", "\"", ":", "2", "0", "0", ",",
      "\"", "m", "s", "g", "\"", ":", "\"", "o", "k", "\"", "}">>
B_QUOTED ==
    <<"\"", "o", "p", "e", "r", "a", "t", "i", "o", "n", " ",
      "s", "u", "c", "c", "e", "s", "s", "\"">>
B_UPPER == <<" ", "S", "U", "C", "C", "E", "S", "S", " ">>
B_MIXED == <<"U", "n", "s", "u", "c", "c", "e", "S", "S", "f", "u", "l">>
B_FAIL == <<"f", "a", "i", "l", "e", "d">>
B_SUCCES == <<"s", "u", "c", "c", "e", "s">>

Bodies == {B_EMPTY, B_JSON, B_QUOTED, B_UPPER, B_MIXED, B_FAIL, B_SUCCES}

\* What payload.get returns for a field that is present and not null: a
\* number, a string, or a nested value (a JSON object or array)
JInt(n) == <<"int", n>>

JStr(s) == <<"str", s>>

JNested == <<"nested">>

T_200 == <<"2", "0", "0">>
T_OK == <<"o", "k">>

\* str(n) for n >= 0
RECURSIVE DecimalOf(_)
DecimalOf(n) ==
    IF n < 10 THEN <<Digits[n + 1]>>
    ELSE DecimalOf(n \div 10) \o <<Digits[(n % 10) + 1]>>

\* sqlite3 binds None, numbers and strings; any other Python value makes
\* execute() raise
Bindable(f) == f = None \/ f[1] # JNested

\* a column declared INTEGER stores a string that reads as an integer as that
\* integer
StoredInteger(f) ==
    IF f # None /\ f[1][1] = "str" /\ f[1][2] # <<>>
       /\ \A i \in 1..Len(f[1][2]) : IsDigit(f[1][2][i])
    THEN Some(JInt(DigitsValue(f[1][2], 0)))
    ELSE f

\* a column declared TEXT stores a number as its decimal text
StoredText(f) ==
    IF f # None /\ f[1][1] = "int" THEN Some(JStr(DecimalOf(f[1][2]))) ELSE f

\* What requests.post does: received = FALSE is a transport failure; otherwise
\* an HTTP status and a body, resp.text.  json says what resp.json() makes of
\* the body: "object" (a dict, with what its get("code") and get("msg")
\* return), "other" (valid JSON, not a dict) or "invalid".
Outcomes ==
    [received : BOOLEAN, status : {200, 500}, json : {"object", "other", "invalid"},
     code : {None, Some(JInt(200)), Some(JInt(500)), Some(JStr(T_200))},
     msg : {None, Some(JStr(T_OK)), Some(JInt(0)), Some(JNested)},
     text : Bodies]

O_ERR ==
    [received |-> FALSE, status |-> 200, json |-> "invalid", code |-> None,
     msg |-> None, text |-> B_EMPTY]
O_OK ==
    [received |-> TRUE, status |-> 200, json |-> "object", code |-> Some(JInt(200)),
     msg |-> Some(JStr(T_OK)), text |-> B_JSON]
O_500 ==
    [received |-> TRUE, status |-> 500, json |-> "object", code |-> Some(JInt(200)),
     msg |-> Some(JStr(T_OK)), text |-> B_JSON]
\* {"code":"200","msg":0}
O_STRCODE ==
    [received |-> TRUE, status |-> 200, json |-> "object", code |-> Some(JStr(T_200)),
     msg |-> Some(JInt(0)), text |-> B_JSON]
\* {"code":500,"msg":["..."]}
O_NESTED ==
    [received |-> TRUE, status |-> 200, json |-> "object", code |-> Some(JInt(500)),
     msg |-> Some(JNested), text |-> B_JSON]
O_TEXT ==
    [received |-> TRUE, status |-> 200, json |-> "other", code |-> None,
     msg |-> None, text |-> B_QUOTED]

\* the outcomes the concurrent model draws from
PostOutcomes == {O_ERR, O_OK, O_500, O_TEXT, O_STRCODE, O_NESTED}

\* result before the request is sent
NoResult ==
    [ok |-> FALSE, http_status |-> None, response_code |-> None,
     response_msg |-> None, error_text |-> None]

\* Classify whose JSON branch forgets the HTTP status
Classify_nostatus(out) ==
    IF ~out.received
    THEN [NoResult EXCEPT !.error_text = Some("transport")]
    ELSE IF out.json = "object"
    THEN [NoResult EXCEPT !.http_status = Some(out.status),
                          !.response_code = out.code,
                          !.response_msg = out.msg,
                          !.ok = (out.code = Some(JInt(200)))]
    ELSE [NoResult EXCEPT !.http_status = Some(out.status),
                          !.ok = (out.status = 200
                                  /\ Contains(Lower(Strip(out.text)), SUCCESS))]

\* the try block of submit_step_for_account: a failed requests.post leaves
\* only error_text; payload.get on a dict fills code, msg and ok; resp.json()
\* raising, or payload.get raising on a non-dict, leaves ok to the text
Classify(out) ==
    IF ~out.received
    THEN [NoResult EXCEPT !.error_text = Some("transport")]
    ELSE IF out.json = "object"
    THEN [NoResult EXCEPT !.http_status = Some(out.status),
                          !.response_code = out.code,
                          !.response_msg = out.msg,
                          !.ok = (out.status = 200 /\ out.code = Some(JInt(200)))]
    ELSE [NoResult EXCEPT !.http_status = Some(out.status),
                          !.ok = (out.status = 200
                                  /\ Contains(Lower(Strip(out.text)), SUCCESS))]

\* write_submit_log: execute() binds every parameter of the INSERT
CanWrite(result) == Bindable(result.response_code) /\ Bindable(result.response_msg)

\* the row write_submit_log inserts, as the columns of submit_logs store it
LogRow(account, run_type, duration, result) ==
    [account_id |-> account.id, account_name |-> account.name,
     phone |-> account.phone, step_num |-> account.step_num,
     run_type |-> run_type,
     status |-> IF result.ok THEN "success" ELSE "failed",
     http_status |-> result.http_status,
     response_code |-> StoredInteger(result.response_code),
     response_msg |-> StoredText(result.response_msg),
     error_text |-> result.error_text,
     duration_ms |-> duration]

\* result argument of the write_submit_log call in _job_wrapper
WrapperResult == [NoResult EXCEPT !.error_text = Some("Scheduler job exception")]

\* ----------------------------------------------------------------- state
VARIABLES
    accounts,   \* accounts table: id -> row, for the rows that exist
    nextId,     \* next AUTOINCREMENT id of the accounts table
    logs,       \* submit_logs table, in insertion order
    jobs,       \* the scheduler's registry
    instances,  \* executor: running instances per job id
    proc,       \* per thread: position in its handler and its locals
    faults,     \* store operations that failed so far
    input,      \* argument of the function a single-function specification
                \* runs; in SpecBoot the environment's DEFAULT_SUBMIT_TIME
    output,     \* its result, None until the function has run
    now,        \* wall clock, in seconds since the midnight before the start
    next_run_time   \* next run time the scheduler holds for the seeded job

\* the state the single-function specifications and the clock add to the
\* program's
aux == <<input, output, now, next_run_time>>

\* the program's state
store == <<accounts, nextId, logs, jobs, instances, proc, faults>>

vars ==
    <<accounts, nextId, logs, jobs, instances, proc, faults, input, output, now,
      next_run_time>>

\* fetch_account
fetch_account(account_id) ==
    IF account_id \in DOMAIN accounts THEN accounts[account_id] ELSE NoRow

\* list_accounts that reads one row only (fetchone for fetchall)
list_accounts_first ==
    IF DOMAIN accounts = {} THEN <<>>
    ELSE <<accounts[CHOOSE i \in DOMAIN accounts : \A k \in DOMAIN accounts : i <= k]>>

\* list_accounts: ORDER BY id ASC
list_accounts ==
    LET RECURSIVE From(_)
        From(i) == IF i > MaxOps + 2 THEN <<>>
                   ELSE IF i \in DOMAIN accounts THEN <<accounts[i]>> \o From(i + 1)
                   ELSE From(i + 1)
    IN  From(1)

\* a thread whose operation has not arrived yet
IdleRec ==
    [pc |-> "idle", op |-> "", aid |-> 0, acct |-> NoRow, row |-> NoRow,
     todo |-> {}, accts |-> <<>>, status |-> "",
     jid |-> <<>>, result |-> NoResult,
     changed |-> FALSE, synced |-> FALSE, alone |-> FALSE, wrote |-> 0,
     escaped |-> FALSE]

\* a thread whose operation is over
EndRec == [IdleRec EXCEPT !.pc = "end"]

\* the operation p runs is an admin request that is still executing
Busy(p) == proc[p].pc \notin {"idle", "end"} /\ proc[p].op # "auto"

\* the row seed_default_account_if_empty inserts into an empty table
SeedRow ==
    [id |-> 1, name |-> DEFAULT_NAME, phone |-> DEFAULT_PHONE, pwd |-> DEFAULT_PWD,
     step_num |-> DEFAULT_STEPS, submit_time |-> DEFAULT_TIME, enabled |-> 1]

\* reload_all_jobs run without interruption: remove every registered job,
\* then schedule_account_job for every row of list_accounts
RECURSIVE RemoveAll(_, _)
RemoveAll(J, ids) ==
    IF ids = {} THEN J
    ELSE LET jid == CHOOSE x \in ids : TRUE
         IN  RemoveAll(TryRemoveJob(J, jid).jobs, ids \ {jid})

RECURSIVE ScheduleAll(_, _)
ScheduleAll(J, rows) ==
    IF rows = <<>> THEN J
    ELSE ScheduleAll(schedule_account_job(J, Head(rows)).jobs, Tail(rows))

reload_all_jobs(J, rows) ==
    ScheduleAll(RemoveAll(J, {j.id : j \in BagToSet(J)}), rows)

\* create_app(): init_db, seed_default_account_if_empty, init_scheduler_once
InitStore ==
    /\ accounts = (1 :> SeedRow)
    /\ nextId = 2
    /\ logs = <<>>
    /\ jobs = reload_all_jobs(EmptyBag, <<SeedRow>>)
    /\ instances = [j \in JobIds |-> 0]
    /\ proc = [p \in Procs |-> IdleRec]
    /\ faults = 0

\* seconds of a day
DAY == 24 * 3600

\* CronTrigger(hour, minute): the first fire time of job j at or after t
NextFireFrom(j, t) ==
    LET tod == j.hour * 3600 + j.minute * 60
        d == t \div DAY
    IN  IF d * DAY + tod >= t THEN d * DAY + tod ELSE (d + 1) * DAY + tod

\* CronTrigger.get_next_fire_time(previous_fire_time = t, now)
NextFireAfter(j, t) == NextFireFrom(j, t + 1)

\* the program starts at midnight; add_job on the running scheduler gives the
\* seeded job its first run time
InitClock == now = 0 /\ next_run_time = NextFireFrom(JobFor(SeedRow), 0)

Init == InitStore /\ InitClock /\ input = None /\ output = None

\* ------------------------------------------------------- request handlers
\* a handler's "except Exception" branch: flash the failure, redirect
Fail(r) == [r EXCEPT !.pc = "ret", !.status = "failed"]

Done(r) == [r EXCEPT !.pc = "ret", !.status = "ok"]

Set(p, r) == proc' = [proc EXCEPT ![p] = r]

\* thread p is the next to start
Fresh(p) == proc[p].pc = "idle" /\ \A q \in 1..(p - 1) : proc[q].pc # "idle"

\* A request gets thread p (which is Fresh) and runs up to and including its
\* first access to a store or to the scheduler.  alone records whether the operation has run so
\* far with no other admin request executing.
BeginOp(p, r) ==
    proc' = [q \in Procs |->
                   IF q = p THEN [r EXCEPT !.alone = \A o \in Procs : ~Busy(o)]
                   ELSE IF Busy(q) THEN [proc[q] EXCEPT !.alone = FALSE]
                   ELSE proc[q]]

\* AccountAdd that inserts the row before it validates the form
AccountAdd_late(p) ==
    /\ Fresh(p)
    /\ \E form \in Forms :
       LET row == [id |-> nextId,
                   name |-> OrElse(form.name, UNNAMED),
                   phone |-> form.phone, pwd |-> form.pwd,
                   step_num |-> form.step_num,
                   submit_time |-> Strip(form.submit_time),
                   enabled |-> IF form.enabled = "on" THEN 1 ELSE 0]
           valid == /\ row.phone # "" /\ row.pwd # ""
                    /\ ParseTime(row.submit_time).ok
                    /\ row.step_num > 0
       IN  /\ BeginOp(p, IF valid
                         THEN [IdleRec EXCEPT !.pc = "refetch", !.op = "add",
                                              !.aid = nextId, !.changed = TRUE]
                         ELSE Fail([IdleRec EXCEPT !.op = "add"]))
           /\ accounts' = accounts @@ (nextId :> row)
           /\ nextId' = nextId + 1
           /\ UNCHANGED <<logs, jobs, instances, faults, aux>>

\* account_add: read and validate the form, INSERT INTO accounts, commit
AccountAdd(p) ==
    /\ Fresh(p)
    /\ \E form \in Forms :
       LET row == [id |-> nextId,
                   name |-> OrElse(form.name, UNNAMED),
                   phone |-> form.phone, pwd |-> form.pwd,
                   step_num |-> form.step_num,
                   submit_time |-> Strip(form.submit_time),
                   enabled |-> IF form.enabled = "on" THEN 1 ELSE 0]
           valid == /\ row.phone # "" /\ row.pwd # ""
                    /\ ParseTime(row.submit_time).ok
                    /\ row.step_num > 0
       IN  IF valid
           THEN /\ BeginOp(p, [IdleRec EXCEPT !.pc = "refetch", !.op = "add",
                                              !.aid = nextId, !.changed = TRUE])
                /\ accounts' = accounts @@ (nextId :> row)
                /\ nextId' = nextId + 1
                /\ UNCHANGED <<logs, jobs, instances, faults, aux>>
           ELSE /\ BeginOp(p, Fail([IdleRec EXCEPT !.op = "add"]))
                /\ UNCHANGED <<accounts, nextId, logs, jobs, instances, faults, aux>>

\* account_update: old = fetch_account(account_id), read and validate the form
AccountUpdate(p, id) ==
    /\ Fresh(p)
    /\ \E form \in Forms :
          LET old == fetch_account(id)
              row == [id |-> id,
                      name |-> OrElse(form.name, old.name),
                      phone |-> OrElse(form.phone, old.phone),
                      pwd |-> OrElse(form.pwd, old.pwd),
                      step_num |-> form.step_num,
                      submit_time |-> Strip(form.submit_time),
                      enabled |-> IF form.enabled = "on" THEN 1 ELSE 0]
              valid == ParseTime(row.submit_time).ok /\ row.step_num > 0
              r == [IdleRec EXCEPT !.op = "update", !.aid = id]
          IN  BeginOp(p, IF old = NoRow \/ ~valid THEN Fail(r)
                         ELSE [r EXCEPT !.pc = "upd_write", !.row = row])
    /\ UNCHANGED <<accounts, nextId, logs, jobs, instances, faults, aux>>

\* account_update: UPDATE accounts ... WHERE id=?, commit
UpdWrite(p) ==
    /\ proc[p].pc = "upd_write"
    /\ accounts' = IF proc[p].aid \in DOMAIN accounts
                   THEN [accounts EXCEPT ![proc[p].aid] = proc[p].row]
                   ELSE accounts
    /\ Set(p, [proc[p] EXCEPT !.pc = "refetch", !.row = NoRow,
                              !.changed = proc[p].aid \in DOMAIN accounts])
    /\ UNCHANGED <<nextId, logs, jobs, instances, faults, aux>>

\* Refetch that returns without calling schedule_account_job
Refetch_skip(p) ==
    /\ proc[p].pc = "refetch"
    /\ Set(p, Done(proc[p]))
    /\ UNCHANGED <<accounts, nextId, logs, jobs, instances, faults, aux>>

\* account_add / account_update: acct = fetch_account(account_id); if acct: ...
Refetch(p) ==
    /\ proc[p].pc = "refetch"
    /\ LET acct == fetch_account(proc[p].aid)
       IN  Set(p, IF acct # NoRow
                  THEN [proc[p] EXCEPT !.pc = "sched_remove", !.acct = acct]
                  ELSE Done(proc[p]))
    /\ UNCHANGED <<accounts, nextId, logs, jobs, instances, faults, aux>>

\* where a thread goes when schedule_account_job returns
AfterSchedule(r) ==
    IF r.op \in {"reload", "boot"} /\ r.accts # <<>>
    THEN [r EXCEPT !.pc = "sched_remove", !.acct = Head(r.accts),
                   !.accts = Tail(r.accts)]
    ELSE Done([r EXCEPT !.synced = TRUE])

\* schedule_account_job: remove the old job, test enabled
SchedRemove(p) ==
    /\ proc[p].pc = "sched_remove"
    /\ LET r == ScheduleRemove(jobs, proc[p].acct)
       IN  /\ jobs' = r.jobs
           /\ Set(p, IF r.raised THEN Fail(proc[p])
                     ELSE IF proc[p].acct.enabled # 1 THEN AfterSchedule(proc[p])
                     ELSE [proc[p] EXCEPT !.pc = "sched_add"])
    /\ UNCHANGED <<accounts, nextId, logs, instances, faults, aux>>

\* schedule_account_job: parse the time, add the job
SchedAdd(p) ==
    /\ proc[p].pc = "sched_add"
    /\ LET r == ScheduleInstall(jobs, proc[p].acct)
       IN  /\ jobs' = r.jobs
           /\ Set(p, IF r.raised THEN Fail(proc[p]) ELSE AfterSchedule(proc[p]))
    /\ UNCHANGED <<accounts, nextId, logs, instances, faults, aux>>

\* log row i refers to account id
RowOf(i, id) == logs[i].account_id = id

\* AccountDelete on a connection that enforces the FOREIGN KEY of submit_logs
\* (PRAGMA foreign_keys = ON): the DELETE of a referenced row raises
AccountDelete_enforced(p, id) ==
    /\ Fresh(p)
    /\ IF \E i \in 1..Len(logs) : RowOf(i, id)
       THEN /\ BeginOp(p, Fail([IdleRec EXCEPT !.op = "delete", !.aid = id]))
            /\ accounts' = accounts
       ELSE /\ BeginOp(p, [IdleRec EXCEPT !.pc = "del_remove", !.op = "delete",
                                          !.aid = id,
                                          !.changed = id \in DOMAIN accounts])
            /\ accounts' = [i \in DOMAIN accounts \ {id} |-> accounts[i]]
    /\ UNCHANGED <<nextId, logs, jobs, instances, faults, aux>>

\* account_delete: DELETE FROM accounts WHERE id=?, commit
AccountDelete(p, id) ==
    /\ Fresh(p)
    /\ BeginOp(p, [IdleRec EXCEPT !.pc = "del_remove", !.op = "delete", !.aid = id,
                                  !.changed = id \in DOMAIN accounts])
    /\ accounts' = [i \in DOMAIN accounts \ {id} |-> accounts[i]]
    /\ UNCHANGED <<nextId, logs, jobs, instances, faults, aux>>

\* account_delete: try: scheduler.remove_job(...) except: pass
DelRemove(p) ==
    /\ proc[p].pc = "del_remove"
    /\ LET r == TryRemoveJob(jobs, job_id_for_account(proc[p].aid))
       IN  /\ jobs' = r.jobs
           /\ Set(p, IF r.raised THEN Fail(proc[p])
                     ELSE Done([proc[p] EXCEPT !.synced = TRUE]))
    /\ UNCHANGED <<accounts, nextId, logs, instances, faults, aux>>

\* jobs_reload, reload_all_jobs: list(scheduler.get_jobs()); the scheduler is
\* running
JobsReload(p) ==
    /\ Fresh(p)
    /\ LET ids == {j.id : j \in BagToSet(jobs)}
       IN  BeginOp(p, [IdleRec EXCEPT !.op = "reload", !.todo = ids,
                         !.pc = IF ids = {} THEN "reload_list" ELSE "reload_remove"])
    /\ UNCHANGED <<accounts, nextId, logs, jobs, instances, faults, aux>>

\* reload_all_jobs: one pass of the removal loop
ReloadRemove(p) ==
    /\ proc[p].pc = "reload_remove"
    /\ \E jid \in proc[p].todo :
          LET r == TryRemoveJob(jobs, jid)
              rest == proc[p].todo \ {jid}
          IN  /\ jobs' = r.jobs
              /\ Set(p, IF r.raised THEN Fail([proc[p] EXCEPT !.todo = {}])
                        ELSE [proc[p] EXCEPT !.todo = rest,
                                !.pc = IF rest = {} THEN "reload_list"
                                       ELSE "reload_remove"])
    /\ UNCHANGED <<accounts, nextId, logs, instances, faults, aux>>

\* reload_all_jobs: list_accounts(), enter the scheduling loop
ReloadList(p) ==
    /\ proc[p].pc = "reload_list"
    /\ Set(p, AfterSchedule([proc[p] EXCEPT !.accts = list_accounts]))
    /\ UNCHANGED <<accounts, nextId, logs, jobs, instances, faults, aux>>

\* clear_logs: DELETE FROM submit_logs, commit
ClearLogs(p) ==
    /\ Fresh(p)
    /\ BeginOp(p, Done([IdleRec EXCEPT !.op = "clear"]))
    /\ logs' = <<>>
    /\ UNCHANGED <<accounts, nextId, jobs, instances, faults, aux>>

\* the handler returns its redirect
Return(p) ==
    /\ proc[p].pc = "ret"
    /\ Set(p, EndRec)
    /\ UNCHANGED <<accounts, nextId, logs, jobs, instances, faults, aux>>

\* ------------------------------------------------------------ submissions
\* where an exception raised inside submit_step_for_account lands: the
\* except branch of _job_wrapper, or that of account_submit / account_test
SubmitRaised(r) ==
    IF r.op = "auto" THEN [r EXCEPT !.pc = "wrap_fetch"] ELSE Fail(r)

\* where submit_step_for_account returns to
SubmitReturned(r) ==
    IF r.op = "auto" THEN [r EXCEPT !.pc = "job_done"]
    ELSE [r EXCEPT !.pc = "ret", !.status = IF r.result.ok THEN "ok" ELSE "failed"]

\* submit_step_for_account: account = fetch_account(account_id);
\* if not account: raise ValueError
SubmitFetch(r) ==
    LET account == fetch_account(r.aid)
    IN  IF account = NoRow THEN SubmitRaised(r)
        ELSE [r EXCEPT !.pc = "sub_post", !.acct = account]

\* account_submit, up to the fetch of submit_step_for_account
AccountSubmit(p, id) ==
    /\ Fresh(p)
    /\ BeginOp(p, SubmitFetch([IdleRec EXCEPT !.op = "manual", !.aid = id]))
    /\ UNCHANGED <<accounts, nextId, logs, jobs, instances, faults, aux>>

\* account_test, up to the fetch of submit_step_for_account
AccountTest(p, id) ==
    /\ Fresh(p)
    /\ BeginOp(p, SubmitFetch([IdleRec EXCEPT !.op = "test", !.aid = id]))
    /\ UNCHANGED <<accounts, nextId, logs, jobs, instances, faults, aux>>

\* SubPost that also takes the account's trigger off the scheduler
SubPost_unschedule(p) ==
    /\ proc[p].pc = "sub_post"
    /\ \E out \in PostOutcomes :
          LET result == Classify(out)
          IN  /\ logs' = Append(logs, LogRow(proc[p].acct, proc[p].op, "elapsed", result))
              /\ Set(p, SubmitReturned([proc[p] EXCEPT !.result = result,
                                                       !.wrote = @ + 1]))
    /\ jobs' = TryRemoveJob(jobs, job_id_for_account(proc[p].aid)).jobs
    /\ UNCHANGED <<accounts, nextId, instances, faults, aux>>

\* submit_step_for_account: the request and its classification, then
\* write_submit_log with the account read at the start; when the INSERT
\* cannot bind the result, its exception leaves submit_step_for_account
SubPost(p) ==
    /\ proc[p].pc = "sub_post"
    /\ \E out \in PostOutcomes :
          LET result == Classify(out)
          IN  IF CanWrite(result)
              THEN /\ logs' = Append(logs, LogRow(proc[p].acct, proc[p].op, "elapsed",
                                                  result))
                   /\ Set(p, SubmitReturned([proc[p] EXCEPT !.result = result,
                                                            !.wrote = @ + 1]))
              ELSE /\ logs' = logs
                   /\ Set(p, SubmitRaised(proc[p]))
    /\ UNCHANGED <<accounts, nextId, jobs, instances, faults, aux>>

\* --------------------------------------------------------- scheduled fires
\* Fire that hands the job to the pool whatever is running
Fire_nolimit(w, j) ==
    /\ Fresh(w)
    /\ instances' = [instances EXCEPT ![j.id] = @ + 1]
    /\ Set(w, [IdleRec EXCEPT !.pc = "sub_fetch", !.op = "auto", !.aid = j.args,
                              !.jid = j.id])
    /\ UNCHANGED <<accounts, nextId, logs, jobs, faults, aux>>

\* The scheduler finds job j due and submits it to the executor, which counts
\* the running instances per job id and starts _job_wrapper on a pool thread
\* when fewer than max_instances runs of that id are under way.
Fire(w, j) ==
    /\ Fresh(w)
    /\ instances[j.id] < max_instances
    /\ instances' = [instances EXCEPT ![j.id] = @ + 1]
    /\ Set(w, [IdleRec EXCEPT !.pc = "sub_fetch", !.op = "auto", !.aid = j.args,
                              !.jid = j.id])
    /\ UNCHANGED <<accounts, nextId, logs, jobs, faults, aux>>

\* The scheduler finds job j due while max_instances runs of its id are under
\* way: the executor refuses it, the scheduler notes the skipped run and
\* moves on to the job's next run time.  The fire is the w-th operation of the
\* run and is over at once.
FireDropped(w, j) ==
    /\ Fresh(w)
    /\ instances[j.id] >= max_instances
    /\ Set(w, [EndRec EXCEPT !.op = "auto", !.aid = j.args, !.jid = j.id,
                             !.status = "dropped"])
    /\ UNCHANGED <<accounts, nextId, logs, jobs, instances, faults, aux>>

\* _job_wrapper: submit_step_for_account(account_id, "auto"), its fetch
JobFetch(w) ==
    /\ proc[w].pc = "sub_fetch"
    /\ Set(w, SubmitFetch(proc[w]))
    /\ UNCHANGED <<accounts, nextId, logs, jobs, instances, faults, aux>>

\* WrapFetch that logs the failure of a deleted account under an invented
\* snapshot
WrapFetch_invent(w) ==
    /\ proc[w].pc = "wrap_fetch"
    /\ logs' = Append(logs, LogRow([NoRow EXCEPT !.id = proc[w].aid], "auto", "zero",
                                   WrapperResult))
    /\ Set(w, [proc[w] EXCEPT !.pc = "job_done", !.wrote = @ + 1])
    /\ UNCHANGED <<accounts, nextId, jobs, instances, faults, aux>>

\* _job_wrapper, except branch: acct = fetch_account(account_id); if acct: ...
WrapFetch(w) ==
    /\ proc[w].pc = "wrap_fetch"
    /\ LET acct == fetch_account(proc[w].aid)
       IN  Set(w, IF acct = NoRow THEN [proc[w] EXCEPT !.pc = "job_done"]
                  ELSE [proc[w] EXCEPT !.pc = "wrap_log", !.acct = acct])
    /\ UNCHANGED <<accounts, nextId, logs, jobs, instances, faults, aux>>

\* _job_wrapper, except branch: write_submit_log(acct, "auto", 0, ...)
WrapLog(w) ==
    /\ proc[w].pc = "wrap_log"
    /\ logs' = Append(logs, LogRow(proc[w].acct, "auto", "zero", WrapperResult))
    /\ Set(w, [proc[w] EXCEPT !.pc = "job_done", !.wrote = @ + 1])
    /\ UNCHANGED <<accounts, nextId, jobs, instances, faults, aux>>

\* the executor takes the finished (or failed) run off its instance count
JobDone(w) ==
    /\ proc[w].pc = "job_done"
    /\ instances' = [instances EXCEPT ![proc[w].jid] = @ - 1]
    /\ Set(w, EndRec)
    /\ UNCHANGED <<accounts, nextId, logs, jobs, faults, aux>>

\* ------------------------------------------------------------ store faults
\* positions at which a thread is about to access the SQLite database
StorePcs == {"upd_write", "refetch", "reload_list", "sub_fetch", "sub_post",
             "wrap_fetch", "wrap_log"}

\* admin operations whose first step is a database access
StoreFirst == {"add", "update", "delete", "manual", "test", "clear"}

\* The database access raises (sqlite3.OperationalError).  Inside
\* submit_step_for_account the exception goes to the caller's except branch;
\* inside the except branch of _job_wrapper nothing catches it; in a request
\* handler the handler's own except branch does.
StoreFault(p) ==
    /\ proc[p].pc \in StorePcs
    /\ faults < MaxFaults
    /\ faults' = faults + 1
    /\ Set(p, IF proc[p].pc \in {"sub_fetch", "sub_post"} THEN SubmitRaised(proc[p])
              ELSE IF proc[p].pc \in {"wrap_fetch", "wrap_log"}
              THEN [proc[p] EXCEPT !.pc = "job_done", !.escaped = TRUE]
              ELSE Fail(proc[p]))
    /\ UNCHANGED <<accounts, nextId, logs, jobs, instances, aux>>

\* the first database access of an admin request raises
StoreFaultFirst(p) ==
    /\ Fresh(p)
    /\ faults < MaxFaults
    /\ faults' = faults + 1
    /\ \E op \in StoreFirst : BeginOp(p, Fail([IdleRec EXCEPT !.op = op]))
    /\ UNCHANGED <<accounts, nextId, logs, jobs, instances, aux>>

\* ------------------------------------------------------------ specifications
Next ==
    \E p \in Procs :
        \/ AccountAdd(p)
        \/ \E id \in 1..nextId : AccountUpdate(p, id)
        \/ UpdWrite(p)
        \/ Refetch(p)
        \/ SchedRemove(p)
        \/ SchedAdd(p)
        \/ \E id \in 1..nextId : AccountDelete(p, id)
        \/ DelRemove(p)
        \/ JobsReload(p)
        \/ ReloadRemove(p)
        \/ ReloadList(p)
        \/ \E id \in 1..nextId : AccountSubmit(p, id)
        \/ \E id \in 1..nextId : AccountTest(p, id)
        \/ ClearLogs(p)
        \/ Return(p)
        \/ SubPost(p)
        \/ \E j \in BagToSet(jobs) : Fire(p, j)
        \/ \E j \in BagToSet(jobs) : FireDropped(p, j)
        \/ JobFetch(p)
        \/ WrapFetch(p)
        \/ WrapLog(p)
        \/ JobDone(p)

\* the program with a database that never fails
Spec == Init /\ [][Next]_vars

NextFault ==
    \/ Next
    \/ \E p \in Procs : StoreFault(p) \/ StoreFaultFirst(p)

\* the program with a database whose accesses may raise
SpecFault == Init /\ [][NextFault]_vars

\* ------------------------------------------------------------- the clock
\* The scheduler thread sleeps until the earliest next run time and then
\* processes the due jobs.  When the process does not run for a while
\* (suspended host, blocked thread) the wakeup comes late.  The steps below
\* follow APScheduler's job processing under the job options of
\* schedule_account_job: coalesce = True, max_instances = 1,
\* misfire_grace_time = 300.

\* 100 seconds pass
Tick ==
    /\ (now % DAY) \div 100 < MaxTicks
    /\ now' = now + 100
    /\ UNCHANGED <<store, input, output, next_run_time>>

\* a day passes
Sleep ==
    /\ now \div DAY < MaxDays
    /\ now' = now + DAY
    /\ UNCHANGED <<store, input, output, next_run_time>>

\* the run times of job j that are due at time t, oldest first
RECURSIVE get_run_times(_, _, _)
get_run_times(j, nrt, t) ==
    IF nrt <= t THEN <<nrt>> \o get_run_times(j, NextFireAfter(j, nrt), t) ELSE <<>>

\* coalesce = True: of the due run times only the last is handed to the executor
CoalescedRunTime(j) ==
    LET run_times == get_run_times(j, next_run_time, now)
    IN  run_times[Len(run_times)]

\* WithinGrace with misfire_grace_time = None
WithinGrace_none(run_time) == TRUE

\* the executor runs a run time that is not more than misfire_grace_time old
WithinGrace(run_time) == now - run_time <= misfire_grace_time

\* the seeded job is due and its coalesced run time is within the grace time:
\* _job_wrapper starts on a pool thread
ClockFire(w, j) ==
    /\ Fresh(w)
    /\ next_run_time <= now
    /\ instances[j.id] < max_instances
    /\ WithinGrace(CoalescedRunTime(j))
    /\ instances' = [instances EXCEPT ![j.id] = @ + 1]
    /\ Set(w, [IdleRec EXCEPT !.pc = "sub_fetch", !.op = "auto", !.aid = j.args,
                              !.jid = j.id])
    /\ next_run_time' = NextFireAfter(j, CoalescedRunTime(j))
    /\ UNCHANGED <<accounts, nextId, logs, jobs, faults, input, output, now>>

\* the seeded job is due and its coalesced run time is older than the grace
\* time: the executor reports the run as missed and does not call the job
ClockMissed(w, j) ==
    /\ Fresh(w)
    /\ next_run_time <= now
    /\ instances[j.id] < max_instances
    /\ ~WithinGrace(CoalescedRunTime(j))
    /\ Set(w, [EndRec EXCEPT !.op = "auto", !.aid = j.args, !.jid = j.id,
                             !.status = "missed"])
    /\ next_run_time' = NextFireAfter(j, CoalescedRunTime(j))
    /\ UNCHANGED <<accounts, nextId, logs, jobs, instances, faults, input, output,
                   now>>

\* the seeded job is due while its previous run is still under way: the
\* executor refuses it
ClockDropped(w, j) ==
    /\ Fresh(w)
    /\ next_run_time <= now
    /\ instances[j.id] >= max_instances
    /\ Set(w, [EndRec EXCEPT !.op = "auto", !.aid = j.args, !.jid = j.id,
                             !.status = "dropped"])
    /\ next_run_time' = NextFireAfter(j, CoalescedRunTime(j))
    /\ UNCHANGED <<accounts, nextId, logs, jobs, instances, faults, input, output,
                   now>>

NextClock ==
    \/ Tick
    \/ Sleep
    \/ \E p \in Procs :
          \/ \E j \in BagToSet(jobs) : ClockFire(p, j)
          \/ \E j \in BagToSet(jobs) : ClockMissed(p, j)
          \/ \E j \in BagToSet(jobs) : ClockDropped(p, j)
          \/ JobFetch(p)
          \/ SubPost(p)
          \/ JobDone(p)

\* the seeded account's trigger under a clock, with no admin request
SpecClock == Init /\ [][NextClock]_vars

\* characters the generated time strings are made of
TimeChars == {"0", "2", "6", ":", " ", "+", "-", "_", "a"}

TIME_1260 == <<"1", "2", ":", "6", "0">>

\* ------------------------------------------------------------ the start
\* The module runs create_app() when it is imported.  DEFAULT_TIME is what the
\* environment variable DEFAULT_SUBMIT_TIME holds, taken as it is; the
\* accounts table is the database file's, which outlives the process, while
\* the scheduler's registry starts empty in every process.

\* values of DEFAULT_SUBMIT_TIME
EnvTimes ==
    {DEFAULT_TIME, TIME_2359, TIME_2400, TIME_1260, TIME_ABC}
        \cup UNION {[1..n -> TimeChars] : n \in 0..3}

\* a new deployment: no database file yet, the process about to call create_app
InitBoot ==
    /\ accounts = [i \in {} |-> SeedRow]
    /\ nextId = 1
    /\ logs = <<>>
    /\ jobs = EmptyBag
    /\ instances = [j \in JobIds |-> 0]
    /\ proc = [p \in Procs |-> IdleRec]
    /\ faults = 0
    /\ input \in EnvTimes
    /\ output = None
    /\ InitClock

\* create_app: init_db, seed_default_account_if_empty
BootSeed(p) ==
    /\ Fresh(p)
    /\ IF DOMAIN accounts = {}
       THEN /\ accounts' = (nextId :> [SeedRow EXCEPT !.id = nextId,
                                                      !.submit_time = input])
            /\ nextId' = nextId + 1
       ELSE UNCHANGED <<accounts, nextId>>
    /\ Set(p, [IdleRec EXCEPT !.op = "boot", !.pc = "boot_start"])
    /\ UNCHANGED <<logs, jobs, instances, faults, aux>>

\* init_scheduler_once: scheduler.start(); reload_all_jobs finds the scheduler
\* running and no job to remove
BootStart(p) ==
    /\ proc[p].pc = "boot_start"
    /\ Set(p, [proc[p] EXCEPT !.pc = "reload_list"])
    /\ UNCHANGED <<accounts, nextId, logs, jobs, instances, faults, aux>>

\* create_app is over, returned or left by an exception (the import fails and
\* the process ends); the process is started again, with the variable as it
\* was or unset
Restart ==
    /\ \E p \in Procs : proc[p].op = "boot" /\ proc[p].pc = "ret"
    /\ proc' = [p \in Procs |-> IdleRec]
    /\ jobs' = EmptyBag
    /\ input' \in {input, DEFAULT_TIME}
    /\ UNCHANGED <<accounts, nextId, logs, instances, faults, output, now,
                   next_run_time>>

NextBoot ==
    \/ Restart
    \/ \E p \in Procs :
          \/ BootSeed(p)
          \/ BootStart(p)
          \/ ReloadList(p)
          \/ SchedRemove(p)
          \/ SchedAdd(p)

\* the start of the process, over the values of DEFAULT_SUBMIT_TIME
SpecBoot == InitBoot /\ [][NextBoot]_vars

\* ------------------------------------------- single-function specifications
\* the try block of submit_step_for_account, run on one outcome of the request
InitClassify == InitStore /\ InitClock /\ input \in Outcomes /\ output = None

RunClassify ==
    /\ output = None
    /\ output' = Some(Classify(input))
    /\ UNCHANGED <<store, input, now, next_run_time>>

SpecClassify == InitClassify /\ [][RunClassify]_vars

\* the accounts schedule_account_job can be called with: every id, existing
\* or not, at each valid time, enabled or not
ScheduleInputs ==
    [id : AccountIds, name : {UNNAMED}, phone : {DEFAULT_PHONE}, pwd : {DEFAULT_PWD},
     step_num : {DEFAULT_STEPS}, submit_time : {DEFAULT_TIME, TIME_2359},
     enabled : {0, 1}]

\* the registries schedule_account_job can find: for every account id no
\* trigger, or one at either time
Registries ==
    {SetToBag({JobFor(a) : a \in {x \in ScheduleInputs : x.enabled = 1 /\ x \in S}}) :
        S \in {T \in SUBSET ScheduleInputs :
                  \A x, y \in T : x.id = y.id => x = y}}

\* schedule_account_job, run on one registry after another
InitSchedule ==
    /\ accounts = (1 :> SeedRow)
    /\ nextId = 2
    /\ logs = <<>>
    /\ jobs \in Registries
    /\ instances = [j \in JobIds |-> 0]
    /\ proc = [p \in Procs |-> IdleRec]
    /\ faults = 0
    /\ input = None
    /\ output = None
    /\ InitClock

RunSchedule ==
    /\ \E a \in ScheduleInputs :
          /\ jobs' = schedule_account_job(jobs, a).jobs
          /\ input' = a
    /\ UNCHANGED <<accounts, nextId, logs, instances, proc, faults, output, now,
                   next_run_time>>

SpecSchedule == InitSchedule /\ [][RunSchedule]_vars

\* parse_time_hhmm, run on one string
\* the strings of the specification's examples and every string of at most
\* MaxTimeLen characters of TimeChars
TimeInputs ==
    {DEFAULT_TIME, TIME_2359, TIME_2400, TIME_1260, TIME_ABC}
        \cup UNION {[1..n -> TimeChars] : n \in 0..MaxTimeLen}

InitParse == InitStore /\ InitClock /\ input \in TimeInputs /\ output = None

RunParse ==
    /\ output = None
    /\ output' = Some(parse_time_hhmm(input))
    /\ UNCHANGED <<store, input, now, next_run_time>>

SpecParse == InitParse /\ [][RunParse]_vars

\* ------------------------------------------------------------------ claims
\* no admin request is executing
Quiescent == \A p \in Procs : ~Busy(p)

\* ids of the accounts that exist with enabled = 1
EnabledIds == {i \in DOMAIN accounts : accounts[i].enabled = 1}

\* ids of the accounts that have a trigger
TriggerIds == {j.args : j \in BagToSet(jobs)}

\* hour and minute written in the submit_time values the forms can store
HourMinute(t) ==
    IF t = DEFAULT_TIME THEN <<0, 5>>
    ELSE IF t = TIME_2359 THEN <<23, 59>>
    ELSE <<>>

\* the registry that holds exactly one trigger per enabled account, at its time
ExpectedJobs ==
    SetToBag({[id |-> job_id_for_account(i),
               hour |-> HourMinute(accounts[i].submit_time)[1],
               minute |-> HourMinute(accounts[i].submit_time)[2],
               args |-> i] : i \in EnabledIds})

\* C1: under any interleaving of admin operations no account id has more than
\* one trigger, and whenever no admin operation is executing the ids with a
\* trigger are exactly the ids of the existing accounts with enabled = 1.
C1_TriggersMatchStore ==
    /\ \A i \in AccountIds : TriggerCount(jobs, job_id_for_account(i)) <= 1
    /\ Quiescent => TriggerIds = EnabledIds

\* the operations started so far are account_update calls on account i, and
\* every one of them has finished (none has returned its redirect yet)
OnlyUpdatesOf(i) ==
    /\ \E p \in Procs : proc[p].pc = "ret"
    /\ \A p \in Procs :
          \/ proc[p].pc = "idle"
          \/ proc[p].pc = "ret" /\ proc[p].op = "update" /\ proc[p].aid = i

\* C2: once concurrent account_update calls on one account have all finished,
\* the hour and minute of its trigger are those of the submit_time stored for
\* the account.
C2_TriggerTimeIsStoredTime ==
    \A i \in DOMAIN accounts :
       OnlyUpdatesOf(i) =>
          \A j \in JobsOf(jobs, job_id_for_account(i)) :
             <<j.hour, j.minute>> = HourMinute(accounts[i].submit_time)

\* p has just finished a schedule_account_job call made by account_add or
\* account_update, and no other admin operation ran during p's operation
ScheduledAlone(p) ==
    /\ proc[p].pc = "ret" /\ proc[p].op \in {"add", "update"}
    /\ proc[p].synced /\ proc[p].alone

\* C3: after schedule_account_job(account) has run on its own, the scheduler
\* holds exactly one trigger for the account id, at the account's hour and
\* minute, if enabled = 1, and no trigger for that id otherwise.
C3_ScheduleInstallsExactlyOne ==
    \A p \in Procs :
       ScheduledAlone(p) =>
          LET a == proc[p].acct
              jid == job_id_for_account(a.id)
          IN  IF a.enabled = 1
              THEN /\ TriggerCount(jobs, jid) = 1
                   /\ \A j \in JobsOf(jobs, jid) :
                         /\ <<j.hour, j.minute>> = HourMinute(a.submit_time)
                         /\ j.args = a.id
              ELSE TriggerCount(jobs, jid) = 0

\* C3 witness: an update has moved an enabled account from 00:05 to 23:59 and
\* its one trigger now fires at 23:59
C3_Witness ==
    \E p \in Procs :
       /\ ScheduledAlone(p) /\ proc[p].op = "update"
       /\ proc[p].acct.enabled = 1 /\ proc[p].acct.submit_time = TIME_2359
       /\ TriggerCount(jobs, job_id_for_account(proc[p].aid)) = 1
       /\ \A j \in JobsOf(jobs, job_id_for_account(proc[p].aid)) : j.hour = 23

\* C4: from every scheduler state, a second schedule_account_job call with the
\* same account leaves the registry as the first call left it, with at most
\* one trigger for the account id.
C4_ScheduleIdempotent ==
    \A a \in ScheduleInputs :
       LET once == schedule_account_job(jobs, a).jobs
           twice == schedule_account_job(once, a).jobs
       IN  /\ twice = once
           /\ TriggerCount(twice, job_id_for_account(a.id)) <= 1

\* C4 witness: the registry is as a schedule_account_job call for an enabled
\* account left it, and the same call again would leave it unchanged
C4_Witness ==
    /\ input # None /\ input.enabled = 1
    /\ HasJob(jobs, job_id_for_account(input.id))
    /\ schedule_account_job(jobs, input).jobs = jobs

\* thread p takes the step
Moved(p) ==
    \/ proc'[p].pc # proc[p].pc
    \/ proc'[p].todo # proc[p].todo
    \/ proc'[p].accts # proc[p].accts

\* the job ids thread p asks the scheduler to remove in the step it takes
RemovedIds(p) ==
    IF proc[p].pc = "del_remove" THEN {job_id_for_account(proc[p].aid)}
    ELSE IF proc[p].pc = "sched_remove" THEN {job_id_for_account(proc[p].acct.id)}
    ELSE IF proc[p].pc = "reload_remove" /\ proc'[p].status # "failed"
    THEN proc[p].todo \ proc'[p].todo
    ELSE {}

\* C5: a removal step (in account_delete, schedule_account_job or
\* reload_all_jobs) never sends its thread to the handler's except branch,
\* leaves the registry unchanged when the id has no trigger, and always leaves
\* the id without a trigger.
C5_RemovalNeverRaises ==
    [][\A p \in Procs :
          (proc[p].pc \in {"del_remove", "sched_remove", "reload_remove"}
           /\ Moved(p)) =>
             /\ proc'[p].status # "failed"
             /\ \A jid \in RemovedIds(p) :
                   /\ ~HasJob(jobs', jid)
                   /\ ~HasJob(jobs, jid) => jobs' = jobs]_vars

\* C5 witness: account_delete of an id that never had a trigger has finished
\* with success
C5_Witness ==
    \E p \in Procs :
       /\ proc[p].pc = "ret" /\ proc[p].op = "delete" /\ proc[p].status = "ok"
       /\ proc[p].aid = nextId /\ proc[p].synced

C8_NothingEscapesWrapper == \A p \in Procs : ~proc[p].escaped

\* p is back from submit_step_for_account, which found its account
Submitted(p) ==
    /\ proc[p].acct # NoRow
    /\ \/ proc[p].pc = "ret" /\ proc[p].op \in {"manual", "test"}
       \/ proc[p].pc = "job_done" /\ proc[p].op = "auto"

\* C9: a submit_step_for_account call that found its account has appended
\* exactly one log row when it is over, and none before; so has the scheduled
\* fire that made the call.
C9_OneRowPerAttempt ==
    \A p \in Procs :
       /\ Submitted(p) => proc[p].wrote = 1
       /\ proc[p].pc = "sub_post" => proc[p].wrote = 0

\* C10: submit_step_for_account on a missing account id goes straight to the
\* caller's except branch, and in a scheduled fire the wrapper then finishes
\* normally; none of these steps changes the Log Store, the Account Store or
\* the scheduler, and no request is sent.
C10_MissingAccountIsDropped ==
    [][\A p \in Procs :
          (Moved(p) /\ proc'[p].aid \notin DOMAIN accounts) =>
             /\ (proc'[p].op \in {"manual", "test"} /\ proc[p].pc = "idle") =>
                   /\ proc'[p].pc = "ret" /\ proc'[p].status = "failed"
                   /\ UNCHANGED <<logs, accounts, jobs, aux>>
             /\ (proc[p].op = "auto" /\ proc[p].pc = "sub_fetch") =>
                   /\ proc'[p].pc = "wrap_fetch"
                   /\ UNCHANGED <<logs, accounts, jobs, aux>>
             /\ (proc[p].op = "auto" /\ proc[p].pc = "wrap_fetch") =>
                   /\ proc'[p].pc = "job_done" /\ ~proc'[p].escaped
                   /\ proc'[p].wrote = 0
                   /\ UNCHANGED <<logs, accounts, jobs>>]_vars

\* C10 witness: a scheduled fire of an account deleted before the fire ran
\* has finished without a log row
C10_Witness ==
    \E p \in Procs :
       /\ proc[p].pc = "job_done" /\ proc[p].op = "auto"
       /\ proc[p].acct = NoRow /\ proc[p].wrote = 0 /\ ~proc[p].escaped
       /\ proc[p].aid \notin DOMAIN accounts
       /\ logs = <<>>

\* the seven letters of "success" in either case
EitherCase ==
    <<{"s", "S"}, {"u", "U"}, {"c", "C"}, {"c", "C"}, {"e", "E"}, {"s", "S"},
      {"s", "S"}>>

\* text t contains "success", case-insensitively
SaysSuccess(t) ==
    \E i \in 0..(Len(t) - 7) : \A k \in 1..7 : t[i + k] \in EitherCase[k]

\* C11: the result of the try block is the reference classification: a failed
\* transport gives ok = false with an error text and nothing else set; a JSON
\* object gives ok = (status 200 and code 200) with code and msg from the
\* object, whatever the text says; any other body gives ok = (status 200 and
\* the text contains "success" in any case) with code and msg unset; a status
\* other than 200 never gives ok.
C11_ClassificationIsReference ==
    output # None =>
       LET o == input
           r == output[1]
       IN  /\ ~o.received =>
                /\ r.ok = FALSE /\ r.error_text # None
                /\ r.http_status = None /\ r.response_code = None
                /\ r.response_msg = None
           /\ (o.received /\ o.json = "object") =>
                /\ r.ok = (o.status = 200 /\ o.code = Some(JInt(200)))
                /\ r.response_code = o.code /\ r.response_msg = o.msg
                /\ r.http_status = Some(o.status) /\ r.error_text = None
           /\ (o.received /\ o.json # "object") =>
                /\ r.ok = (o.status = 200 /\ SaysSuccess(o.text))
                /\ r.response_code = None /\ r.response_msg = None
                /\ r.http_status = Some(o.status) /\ r.error_text = None
           /\ (o.received /\ o.status # 200) => r.ok = FALSE

\* C11 witness: HTTP 200 with a JSON object whose code is 500 and a text that
\* says SUCCESS has been classified as failed
C11_Witness ==
    /\ output # None /\ input.received /\ input.status = 200
    /\ input.json = "object" /\ input.code = Some(JInt(500)) /\ input.text = B_UPPER
    /\ output[1].ok = FALSE /\ output[1].response_code = Some(JInt(500))

\* run types of the submissions an admin request makes
RequestRuns == {"manual", "test"}

\* C12: no step of account_submit or account_test, whatever the outcome of the
\* submission and also when the account is missing, changes the scheduler's
\* triggers (their set or their times), the executor's counts or the Account
\* Store.
C12_SubmissionLeavesSchedulerAlone ==
    [][\A p \in Procs :
          (Moved(p) /\ (proc[p].op \in RequestRuns \/ proc'[p].op \in RequestRuns))
             => UNCHANGED <<jobs, instances, accounts, nextId>>]_vars

\* C12 witness: a manual submission of the seeded account has returned, its
\* row is written, and the registry and the store are as they started
C12_Witness ==
    \E p \in Procs :
       /\ proc[p].pc = "ret" /\ proc[p].op = "manual" /\ proc[p].wrote = 1
       /\ jobs = reload_all_jobs(EmptyBag, <<SeedRow>>)
       /\ accounts = (1 :> SeedRow)

\* thread p is running _job_wrapper for a scheduled fire
Running(p) ==
    /\ proc[p].op = "auto"
    /\ proc[p].pc \in {"sub_fetch", "sub_post", "wrap_fetch", "wrap_log", "job_done"}

\* the threads running a fire of the trigger with id jid
RunningOf(jid) == {p \in Procs : Running(p) /\ proc[p].jid = jid}

\* at most one execution per trigger id, and the executor counts exactly the
\* executions under way, so that one id never holds back another
OneAtATime ==
    \A jid \in JobIds :
       /\ Cardinality(RunningOf(jid)) <= 1
       /\ instances[jid] = Cardinality(RunningOf(jid))

InFlight(p) == proc[p].pc = "sub_post"

\* C14: per account id at most one execution of submit_step_for_account is in
\* flight, scheduled or requested, and of two attempts on one account the one
\* that started first (the lower thread) has its row appended first.
C14_OneInFlightPerAccount ==
    \A p, q \in Procs :
       (p < q /\ proc[p].aid = proc[q].aid) =>
          /\ ~(InFlight(p) /\ InFlight(q))
          /\ (InFlight(p) \/ Submitted(p)) /\ Submitted(q) => proc[p].wrote = 1

\* a row with both credentials, a positive step count and a time of day
ValidRow(row) ==
    /\ row.phone # "" /\ row.pwd # ""
    /\ row.step_num > 0
    /\ HourMinute(row.submit_time) # <<>>

DigitOf ==
    ("0" :> 0) @@ ("1" :> 1) @@ ("2" :> 2) @@ ("3" :> 3) @@ ("4" :> 4) @@
    ("5" :> 5) @@ ("6" :> 6) @@ ("7" :> 7) @@ ("8" :> 8) @@ ("9" :> 9)

\* x writes an integer: decimal digits, at most one sign in front of them,
\* blanks allowed around
IsNumeral(x) ==
    \E i, j \in 1..Len(x) :
       /\ i <= j
       /\ \A k \in 1..(i - 1) : x[k] = " "
       /\ \A k \in (j + 1)..Len(x) : x[k] = " "
       /\ x[j] \in DOMAIN DigitOf
       /\ x[i] \in DOMAIN DigitOf \cup {"+", "-"}
       /\ \A k \in (i + 1)..j : x[k] \in DOMAIN DigitOf

\* the integer a numeral writes
RECURSIVE NumeralMagnitude(_, _)
NumeralMagnitude(x, n) ==
    IF n = 0 THEN 0
    ELSE IF x[n] \in DOMAIN DigitOf
    THEN DigitOf[x[n]] + 10 * NumeralMagnitude(x, n - 1)
    ELSE NumeralMagnitude(x, n - 1)

NumeralValue(x) ==
    IF \E k \in 1..Len(x) : x[k] = "-"
    THEN 0 - NumeralMagnitude(x, Len(x))
    ELSE NumeralMagnitude(x, Len(x))

\* s is two integers separated by one colon, the first an hour of the day and
\* the second a minute of the hour
IsTimeOfDay(s) ==
    \E c \in 1..Len(s) :
       /\ s[c] = ":"
       /\ \A k \in 1..Len(s) : s[k] = ":" => k = c
       /\ LET hh == SubSeq(s, 1, c - 1)
              mm == SubSeq(s, c + 1, Len(s))
          IN  /\ IsNumeral(hh) /\ IsNumeral(mm)
              /\ NumeralValue(hh) \in 0..23
              /\ NumeralValue(mm) \in 0..59

\* C16: parse_time_hhmm succeeds exactly on the strings made of two
\* colon-separated integers with the hour in [0,23] and the minute in [0,59],
\* and then returns that hour and minute; it fails on every other string.
C16_ParseAcceptsExactlyHHMM ==
    output # None =>
       /\ output[1].ok = IsTimeOfDay(input)
       /\ \A c \in 1..Len(input) :
             (output[1].ok /\ input[c] = ":") =>
                /\ output[1].h = NumeralValue(SubSeq(input, 1, c - 1))
                /\ output[1].m = NumeralValue(SubSeq(input, c + 1, Len(input)))

\* C17: a missed fire is caught up only within the grace window.  Whenever the
\* scheduler processes the seeded account's due trigger with nothing of it
\* running, the fire it is late for is the latest 00:05 that has passed; when
\* the scheduler is more than 300 seconds late for it nothing is executed and
\* no row is logged, an execution starts only when it is at most 300 seconds
\* late, at most one execution starts however many fires were missed, and
\* none of the missed fires stays pending.
C17_CatchUpWithinGrace ==
    [][\A w \in Procs :
          (proc[w].pc = "idle" /\ proc'[w].op = "auto"
           /\ instances[job_id_for_account(1)] = 0) =>
              LET due == ((now - 300) \div 86400) * 86400 + 300
                  late == now - due
              IN  /\ next_run_time <= due
                  /\ late > 300 =>
                        /\ proc'[w].pc = "end"
                        /\ logs' = logs
                        /\ instances' = instances
                  /\ late <= 300 => proc'[w].pc = "sub_fetch"
                  /\ \A q \in Procs \ {w} : proc'[q] = proc[q]
                  /\ next_run_time' > now]_vars

\* the scheduler came to the first fire 400 seconds late and skipped it
C17_Witness ==
    /\ \E w \in Procs : proc[w].status = "missed"
    /\ now = 700
    /\ next_run_time = 86400 + 300
    /\ logs = <<>>

\* thread p starts a clear_logs request in this step
ClearsLogs(p) == proc[p].pc = "idle" /\ proc'[p].op = "clear"

\* thread p takes a step of account_delete on an account that has log rows
DeletesLogged(p) ==
    /\ proc'[p].op = "delete"
    /\ proc[p].pc \in {"idle", "del_remove"}
    /\ proc'[p].pc # proc[p].pc
    /\ \E i \in 1..Len(logs) : RowOf(i, proc'[p].aid)

\* C18: log rows survive.  Every step of account_add, account_update,
\* account_delete, reload_all_jobs, a scheduled fire or a manual / test
\* submission (every step that is not a clear_logs request) leaves each row
\* already in the Log Store in place with its fields unchanged, rows of
\* deleted accounts included; and account_delete of an account that has log
\* rows removes the account and ends with success.
C18_LogRowsSurvive ==
    [][/\ (\A p \in Procs : ~ClearsLogs(p)) =>
             /\ Len(logs') >= Len(logs)
             /\ SubSeq(logs', 1, Len(logs)) = logs
       /\ \A p \in Procs :
             DeletesLogged(p) =>
                 /\ proc'[p].status # "failed"
                 /\ proc[p].pc = "idle" => proc'[p].aid \notin DOMAIN accounts'
                 /\ proc[p].pc = "del_remove" => proc'[p].status = "ok"]_vars

\* account 1 was deleted with success and its log row is still there
C18_Witness ==
    \E p \in Procs :
        /\ proc[p].op = "delete" /\ proc[p].status = "ok"
        /\ proc[p].aid \notin DOMAIN accounts
        /\ \E i \in 1..Len(logs) :
              RowOf(i, proc[p].aid) /\ logs[i].account_name = DEFAULT_NAME

\* thread p appends a row from inside submit_step_for_account in this step
WritesRow(p) ==
    /\ proc[p].pc = "sub_post" /\ proc'[p].pc # "sub_post"
    /\ Len(logs') = Len(logs) + 1

\* C19: the row an attempt appends describes the attempt.  The account a
\* submission goes on with is the stored row of its id at that moment; the row
\* it later appends carries the run type the attempt was started with, status
\* success exactly when the returned result has ok = true, the http_status,
\* response_code, response_msg and error_text of the returned result, and the
\* name, phone and step count of the account as read at the start, whatever
\* has happened to the account since.
C19_RowDescribesAttempt ==
    [][\A p \in Procs :
          /\ (proc[p].pc # "sub_post" /\ proc'[p].pc = "sub_post") =>
                /\ proc'[p].aid \in DOMAIN accounts
                /\ proc'[p].acct = accounts[proc'[p].aid]
          /\ WritesRow(p) =>
                LET row == logs'[Len(logs')]
                    r == proc'[p].result
                    a == proc[p].acct
                IN  /\ row.run_type = proc[p].op
                    /\ row.run_type = "auto" <=> proc[p].jid # <<>>
                    /\ (row.status = "success") <=> r.ok
                    /\ row.status \in {"success", "failed"}
                    /\ row.http_status = r.http_status
                    /\ row.response_code = r.response_code
                    /\ row.response_msg = r.response_msg
                    /\ row.error_text = r.error_text
                    /\ row.account_id = a.id
                    /\ row.account_name = a.name
                    /\ row.phone = a.phone
                    /\ row.step_num = a.step_num]_vars

\* thread p leaves schedule_account_job in this step, called with an enabled
\* account whose submit_time is not a time of day
MeetsMalformed(p) ==
    /\ proc[p].pc = "sched_add" /\ proc'[p].pc # "sched_add"
    /\ proc[p].acct.enabled = 1
    /\ ~IsTimeOfDay(proc[p].acct.submit_time)

\* C20: a malformed stored submit_time is refused without a crash.  When
\* schedule_account_job, called at the start or by reload_all_jobs, meets an
\* enabled account whose stored submit_time is not a time of day, no error
\* reaches the caller, no trigger is registered under the account's id, and
\* when the reload is over every enabled account with a well-formed time has
\* its trigger.
C20_MalformedTimeIsRefused ==
    [][\A p \in Procs :
          MeetsMalformed(p) =>
              /\ proc'[p].status # "failed"
              /\ ~HasJob(jobs', job_id_for_account(proc[p].acct.id))
              /\ proc'[p].pc = "ret" =>
                    \A i \in DOMAIN accounts :
                       (accounts[i].enabled = 1 /\ IsTimeOfDay(accounts[i].submit_time))
                          => HasJob(jobs', job_id_for_account(i))]_vars

====
